---- MODULE Spec2Model ----
(***************************************************************************)
(* Routing engine of the school navigator (src/app.py): loading the node   *)
(* and edge tables, building the weighted graph, resolving a selection to  *)
(* node ids, the mobility and single-floor views, the multi-source /       *)
(* multi-target shortest-path search and the distance / time estimate.     *)
(*                                                                         *)
(* Strings are sequences of Unicode code points, so that str.lower() and   *)
(* str.capitalize() are computed character by character.  Python's None is *)
(* the value None, float("inf") is the value Inf.  A dict is a function    *)
(* whose domain is the set of its keys.  Edge weights and path weights are *)
(* whole numbers.                                                          *)
(***************************************************************************)
EXTENDS Integers, Sequences, FiniteSets, TLC

VARIABLES
    nodeRows,   \* rows of table nodes: (id, x, y, floor, type, label, person)
    edgeRows,   \* rows of table edges: (node_from, node_to, weight)
    G,          \* the graph built once by build_graph
    LABELS,     \* label -> node id
    CATEGORIES, \* capitalized type -> list of node ids
    POSITIONS,  \* node id -> (x, y)
    pc,         \* where the script is: "idle" between requests, else the call just made
    args,       \* the arguments of the call just made
    ret         \* what the call just made returned (or that it raised)

vars == <<nodeRows, edgeRows, G, LABELS, CATEGORIES, POSITIONS, pc, args, ret>>

\* None: a sequence that is no string, no path and no list of ids (a code
\* point or a node id is never negative), so that it compares with them.
None == <<-1>>
\* float("inf"): path weights are never negative.
Inf == -1
NoArgs == [op |-> "none"]
NoRet == [kind |-> "none"]

Returned(v) == [kind |-> "return", value |-> v]
Raised(e) == [kind |-> "raise", error |-> e]

----------------------------------------------------------------------------
(* Strings *)

IsUpperCp(c) == (c >= 65 /\ c <= 90) \/ (c >= 1040 /\ c <= 1071)
IsLowerCp(c) == (c >= 97 /\ c <= 122) \/ (c >= 1072 /\ c <= 1103)

\* str.lower(), per character: A-Z and the Cyrillic capitals move 32 up.
LowerCp(c) == IF IsUpperCp(c) THEN c + 32 ELSE c
UpperCp(c) == IF IsLowerCp(c) THEN c - 32 ELSE c

Lower(s) == [i \in 1..Len(s) |-> LowerCp(s[i])]

\* str.capitalize(): first character upper-cased, the rest lower-cased.
Capitalize(s) == [i \in 1..Len(s) |-> IF i = 1 THEN UpperCp(s[i]) ELSE LowerCp(s[i])]

\* "regular"
StrRegular == <<114, 101, 103, 117, 108, 97, 114>>
\* "staircase"
StrStaircase == <<115, 116, 97, 105, 114, 99, 97, 115, 101>>
\* "elevator"
StrElevator == <<101, 108, 101, 118, 97, 116, 111, 114>>
\* "lestnitsa" in Cyrillic letters (U+043B U+0435 U+0441 U+0442 U+043D U+0438 U+0446 U+0430)
StrLestnitsa == <<1083, 1077, 1089, 1090, 1085, 1080, 1094, 1072>>
\* "lift" in Cyrillic letters (U+043B U+0438 U+0444 U+0442)
StrLift == <<1083, 1080, 1092, 1090>>
\* " "
StrSpace == <<32>>
\* ""
StrEmpty == <<>>

\* Python truthiness of a nullable string column: None and "" are falsy.
Truthy(s) == s # None /\ s # StrEmpty

----------------------------------------------------------------------------
(* Graphs: nx.Graph as its node dict and its (undirected) edge dict *)

EmptyDict == [k \in {} |-> None]

\* d[key] = value
DictSet(d, key, value) ==
    [k \in DOMAIN d \cup {key} |-> IF k = key THEN value ELSE d[k]]

EmptyGraph == [nodes |-> {}, data |-> EmptyDict, weight |-> EmptyDict]

\* An undirected edge is the set of its endpoints ({u} for a self-loop).
EdgeKey(u, v) == {u, v}

\* d.get(key, default)
DictGet(d, key, default) == IF key \in DOMAIN d THEN d[key] ELSE default

\* G.add_node(n, **attrs): a new node gets attrs, a known node is updated.
AddNode(g, n, attrs) ==
    [g EXCEPT !.nodes = g.nodes \cup {n},
              !.data = [m \in g.nodes \cup {n} |->
                           IF m = n THEN attrs ELSE g.data[m]]]

\* Adding an edge adds its endpoints (with no attributes) when they are new,
\* and overwrites the weight of an edge already there.
AddWeightedEdge(g, u, v, w) ==
    LET ns == g.nodes \cup {u, v}
        es == DOMAIN g.weight \cup {EdgeKey(u, v)}
    IN [nodes |-> ns,
        data |-> [m \in ns |-> IF m \in g.nodes THEN g.data[m] ELSE EmptyDict],
        weight |-> [e \in es |-> IF e = EdgeKey(u, v) THEN w ELSE g.weight[e]]]

RECURSIVE AddWeightedEdgesFrom(_, _, _)
AddWeightedEdgesFrom(g, edges, i) ==
    IF i > Len(edges) THEN g
    ELSE AddWeightedEdgesFrom(
             AddWeightedEdge(g, edges[i][1], edges[i][2], edges[i][3]), edges, i + 1)

\* The node-induced subgraph on keep, as a graph of its own.
Induced(g, keep) ==
    LET ns == g.nodes \cap keep
    IN [nodes |-> ns,
        data |-> [m \in ns |-> g.data[m]],
        weight |-> [e \in {f \in DOMAIN g.weight : f \subseteq ns} |-> g.weight[e]]]

\* A mutation in place: the receiver itself loses the nodes not kept.
SubgraphInPlace(g, keep) == [base |-> Induced(g, keep), view |-> Induced(g, keep)]

\* G.subgraph(keep).copy(): the receiver as it is after the call, and the copy.
SubgraphCopy(g, keep) == [base |-> g, view |-> Induced(g, keep)]

Neighbors(g, n) == {m \in g.nodes : EdgeKey(n, m) \in DOMAIN g.weight}

----------------------------------------------------------------------------
(* load_data_from_db and build_graph *)

NodeRow(id, x, y, floor, type, label, person) ==
    [id |-> id, x |-> x, y |-> y, floor |-> floor, type |-> type,
     label |-> label, person |-> person]

EmptyIndices ==
    [positions |-> EmptyDict, floors |-> EmptyDict, types |-> EmptyDict,
     labels |-> EmptyDict, categories |-> EmptyDict]

\* The key a row is filed under in labels: label + " " + person when the row
\* has a label and a person, else the label as it is (None and "" included).
LabelKey(r) ==
    IF Truthy(r.label) /\ r.person # None
    THEN r.label \o StrSpace \o r.person
    ELSE r.label

\* categories.setdefault(n_type.capitalize(), []).append(node_id)
CategoryAppend(categories, n_type, id) ==
    LET key == Capitalize(n_type)
    IN DictSet(categories, key, Append(DictGet(categories, key, <<>>), id))

\* One turn of the loop over the node rows.
LoadRow(ix, r) ==
    [positions |-> DictSet(ix.positions, r.id, <<r.x, r.y>>),
     floors |-> DictSet(ix.floors, r.id, r.floor),
     types |-> DictSet(ix.types, r.id, IF Truthy(r.type) THEN r.type ELSE StrRegular),
     labels |-> DictSet(ix.labels, LabelKey(r), r.id),
     categories |-> IF Truthy(r.type)
                    THEN CategoryAppend(ix.categories, r.type, r.id)
                    ELSE ix.categories]

RECURSIVE LoadRows(_, _, _)
LoadRows(ix, rows, i) ==
    IF i > Len(rows) THEN ix ELSE LoadRows(LoadRow(ix, rows[i]), rows, i + 1)

\* positions, floors, types, labels, categories and the edge list.
load_data_from_db(nrows, erows) ==
    LET ix == LoadRows(EmptyIndices, nrows, 1)
    IN [positions |-> ix.positions, floors |-> ix.floors, types |-> ix.types,
        labels |-> ix.labels, categories |-> ix.categories,
        \* float(w) keeps the number w
        edges |-> [i \in 1..Len(erows) |-> <<erows[i].u, erows[i].v, erows[i].w>>]]

NodeAttrsWithoutFloor(db, n) == [pos |-> db.positions[n], type |-> db.types[n]]

\* The attributes build_graph gives node n.
NodeAttrs(db, n) == [pos |-> db.positions[n], floor |-> db.floors[n], type |-> db.types[n]]

RECURSIVE AddNodes(_, _, _)
AddNodes(g, db, todo) ==
    IF todo = {} THEN g
    ELSE LET n == CHOOSE m \in todo : TRUE
         IN AddNodes(AddNode(g, n, NodeAttrs(db, n)), db, todo \ {n})

build_graph(nrows, erows) ==
    LET db == load_data_from_db(nrows, erows)
        withNodes == AddNodes(EmptyGraph, db, DOMAIN db.positions)
    IN [G |-> AddWeightedEdgesFrom(withNodes, db.edges, 1),
        POS |-> db.positions, LABELS |-> db.labels, CATEGORIES |-> db.categories]

resolve_category_first(selection, labels, categories) ==
    IF selection \in DOMAIN categories THEN categories[selection]
    ELSE IF selection \in DOMAIN labels THEN <<labels[selection]>>
    ELSE <<>>

\* resolve_selection
resolve_selection(selection, labels, categories) ==
    IF selection \in DOMAIN labels THEN <<labels[selection]>>
    ELSE IF selection \in DOMAIN categories THEN categories[selection]
    ELSE <<>>

----------------------------------------------------------------------------
(* The views and the search *)

ForbiddenSwapped(mgn) ==
    IF mgn THEN {StrLift, StrElevator} ELSE {StrLestnitsa, StrStaircase}

\* The node types a mode leaves out.
Forbidden(mgn) ==
    IF mgn THEN {StrLestnitsa, StrStaircase} ELSE {StrLift, StrElevator}

\* str(d.get("type", "")).lower() not in forbidden
Allowed(g, mgn) ==
    {n \in g.nodes : Lower(DictGet(g.data[n], "type", StrEmpty)) \notin Forbidden(mgn)}

filter_graph_by_mobility(g, mgn) == SubgraphCopy(g, Allowed(g, mgn))

\* d.get('floor') == floor
OnFloor(g, floor) ==
    {n \in g.nodes : "floor" \in DOMAIN g.data[n] /\ g.data[n]["floor"] = floor}

restrict_to_single_floor(g, floor) == SubgraphCopy(g, OnFloor(g, floor))

PairsEndsSwapped(starts, targets) ==
    [k \in 1..(Len(starts) * Len(targets)) |->
        <<targets[((k - 1) % Len(targets)) + 1], starts[((k - 1) \div Len(targets)) + 1]>>]

\* The pairs in the order the two loops visit them: starts outside, targets inside.
Pairs(starts, targets) ==
    [k \in 1..(Len(starts) * Len(targets)) |->
        <<starts[((k - 1) \div Len(targets)) + 1], targets[((k - 1) % Len(targets)) + 1]>>]

Last(p) == p[Len(p)]
Range(p) == {p[i] : i \in 1..Len(p)}

\* The simple paths of g that extend p and end at t.
RECURSIVE PathsFrom(_, _, _)
PathsFrom(g, p, t) ==
    IF Last(p) = t THEN {p}
    ELSE UNION {PathsFrom(g, Append(p, n), t) : n \in Neighbors(g, Last(p)) \ Range(p)}

\* nx.path_weight(g, path, "weight")
RECURSIVE PathWeightFrom(_, _, _)
PathWeightFrom(g, path, i) ==
    IF i >= Len(path) THEN 0
    ELSE g.weight[EdgeKey(path[i], path[i + 1])] + PathWeightFrom(g, path, i + 1)

path_weight(g, path) == PathWeightFrom(g, path, 1)

\* nx.dijkstra_path(g, s, t, weight="weight") with s in g: the paths it may
\* return are the lightest simple paths from s to t; none is NetworkXNoPath.
dijkstra_paths(g, s, t) ==
    LET all == IF t \in g.nodes THEN PathsFrom(g, <<s>>, t) ELSE {}
    IN {p \in all : \A q \in all : path_weight(g, p) <= path_weight(g, q)}

NeverSkipped(view, s, t) == FALSE

\* s not in base_G or t not in base_G
Skipped(view, s, t) == s \notin view.nodes \/ t \notin view.nodes

ImprovesOrTies(length, best_len) == best_len = Inf \/ length <= best_len

FirstFoundOnly(length, best_len) == best_len = Inf

\* length < best_len
Improves(length, best_len) == best_len = Inf \/ length < best_len

AlwaysBaseView(g, base_G, s, t) == Returned(base_G)

\* The view a pair is searched in; G.nodes[s]["floor"] raises KeyError for a
\* node that is not in G or has no floor.
WorkingView(g, base_G, s, t) ==
    IF s \notin g.nodes \/ t \notin g.nodes THEN Raised("KeyError")
    ELSE IF "floor" \notin DOMAIN g.data[s] \/ "floor" \notin DOMAIN g.data[t]
         THEN Raised("KeyError")
    ELSE IF g.data[s]["floor"] = g.data[t]["floor"]
         THEN Returned(restrict_to_single_floor(base_G, g.data[s]["floor"]).view)
    ELSE Returned(base_G)

\* One turn of the inner loop from the state best = (best_path, best_len):
\* the states it may end in, one for each path dijkstra_path may return.
Visit(g, base_G, s, t, best) ==
    IF best.kind = "raise" \/ Skipped(base_G, s, t) THEN {best}
    ELSE LET working_G == WorkingView(g, base_G, s, t)
         IN IF working_G.kind = "raise" THEN {working_G}
            \* dijkstra_path raises NodeNotFound for a source that is not in the graph
            ELSE IF s \notin working_G.value.nodes THEN {Raised("NodeNotFound")}
            ELSE LET found == dijkstra_paths(working_G.value, s, t)
                 IN IF found = {} THEN {best}
                    ELSE {IF Improves(path_weight(working_G.value, path), best.best_len)
                          THEN [kind |-> "loop", best_path |-> path,
                                best_len |-> path_weight(working_G.value, path)]
                          ELSE best : path \in found}

RECURSIVE VisitAll(_, _, _, _, _)
VisitAll(g, base_G, pairs, k, bests) ==
    IF k > Len(pairs) THEN bests
    ELSE VisitAll(g, base_G, pairs, k + 1,
                  UNION {Visit(g, base_G, pairs[k][1], pairs[k][2], b) : b \in bests})

\* find_best_path: what the call may return (or that it raises), with the
\* graph G as the call leaves it.
find_best_path(g, starts, targets, mgn) ==
    LET filtered == filter_graph_by_mobility(g, mgn)
        ends == VisitAll(g, filtered.view, Pairs(starts, targets), 1,
                         {[kind |-> "loop", best_path |-> None, best_len |-> Inf]})
    IN {[base |-> filtered.base,
         ret |-> IF b.kind = "raise" THEN b ELSE Returned(b.best_path)] : b \in ends}

----------------------------------------------------------------------------
(* Distance and walking time *)

\* length // 3.5 for a whole length: the floor of 2 * length / 7.
FloorDivBy3_5(length) == (2 * length) \div 7

RoundHalfUp(num, den) == (2 * num + den) \div (2 * den)

\* round(num / den) for num >= 0, den > 0: to the nearest integer, a tie to
\* the even one.
PyRound(num, den) ==
    LET q == num \div den
        r == num % den
    IN IF 2 * r < den THEN q
       ELSE IF 2 * r > den THEN q + 1
       ELSE IF q % 2 = 0 THEN q ELSE q + 1

MetersPerMinute == 72

\* The sidebar metric and the notification: meters, then minutes.
Estimate(length) ==
    LET meters == FloorDivBy3_5(length)
    IN [meters |-> meters, minutes |-> PyRound(meters, MetersPerMinute)]

----------------------------------------------------------------------------
(* Bounds and inputs *)

MaxWeight == 1
MaxSel == 2

NodeIds == {1, 2, 3}
RouteNodeCounts == {2, 3}
Floors == {1, 2}
Weights == 0..MaxWeight

\* "Staircase"
StrStaircaseCap == <<83, 116, 97, 105, 114, 99, 97, 115, 101>>
\* "LIFT" in Cyrillic capitals (U+041B U+0418 U+0424 U+0422)
StrLiftUpper == <<1051, 1048, 1060, 1058>>

SpecialTypes == {StrStaircaseCap, StrLiftUpper}

\* The lists a caller may pass as starts or targets: ids without repetition.
Selections ==
    UNION {{q \in [1..k -> NodeIds] : \A i, j \in 1..k : q[i] = q[j] => i = j} : k \in 0..MaxSel}

\* The pairs u < v of 1..n.
PairsBelow(n) == {<<u, v>> \in (1..n) \X (1..n) : u < v}

RECURSIVE SetToSeq(_)
SetToSeq(S) ==
    IF S = {} THEN <<>>
    ELSE LET x == CHOOSE y \in S : TRUE IN <<x>> \o SetToSeq(S \ {x})

EdgeRow(u, v, w) == [u |-> u, v |-> v, w |-> w]

\* The type columns of n rows: no typed node, node 2 stairs or an elevator,
\* or nodes 2 and 3 one of each; the other rows have no type. Up to a
\* renaming of the nodes these are the datasets with at most one node of
\* each kind.
RouteTypeColumns(n) ==
    {ty \in [1..n -> {None} \cup SpecialTypes] :
        /\ ty[1] = None
        /\ n >= 3 /\ ty[3] # None => ty[2] \notin {None, ty[3]}}

\* The floor columns of n rows; node 1 is on the first floor (floors are
\* only ever compared for equality).
RouteFloorColumns(n) == {fl \in [1..n -> Floors] : fl[1] = 1}

\* G as build_graph makes it from a dataset that keeps the input contract:
\* unique node ids, every edge between two of them, every weight >= 0.
RouteInit ==
    \E n \in RouteNodeCounts :
      \E fl \in RouteFloorColumns(n), ty \in RouteTypeColumns(n), E \in SUBSET PairsBelow(n) :
        \E w \in [E -> Weights] :
          /\ nodeRows = [i \in 1..n |-> NodeRow(i, i, i, fl[i], ty[i], None, None)]
          /\ edgeRows = LET es == SetToSeq(E)
                        IN [i \in 1..Len(es) |-> EdgeRow(es[i][1], es[i][2], w[es[i]])]
          /\ LET built == build_graph(nodeRows, edgeRows)
             IN /\ G = built.G
                /\ POSITIONS = built.POS
                /\ LABELS = built.LABELS
                /\ CATEGORIES = built.CATEGORIES
          /\ pc = "idle"
          /\ args = NoArgs
          /\ ret = NoRet

CallFilter ==
    /\ pc = "idle"
    /\ \E mgn \in BOOLEAN :
         LET r == filter_graph_by_mobility(G, mgn)
         IN /\ G' = r.base
            /\ ret' = Returned(r.view)
            /\ args' = [op |-> "filter_graph_by_mobility", mgn |-> mgn]
    /\ pc' = "filter"
    /\ UNCHANGED <<nodeRows, edgeRows, LABELS, CATEGORIES, POSITIONS>>

\* restrict_to_single_floor of G, or of the view filter_graph_by_mobility returned.
CallRestrict ==
    /\ pc \in {"idle", "filter"}
    /\ \E floor \in Floors :
         LET r == restrict_to_single_floor(IF pc = "idle" THEN G ELSE ret.value, floor)
         IN /\ G' = IF pc = "idle" THEN r.base ELSE G
            /\ ret' = Returned(r.view)
            /\ args' = [op |-> "restrict_to_single_floor", floor |-> floor,
                         of |-> IF pc = "idle" THEN G ELSE ret.value]
    /\ pc' = "restrict"
    /\ UNCHANGED <<nodeRows, edgeRows, LABELS, CATEGORIES, POSITIONS>>

CallFindBestPath ==
    /\ pc = "idle"
    /\ \E starts \in Selections, targets \in Selections, mgn \in BOOLEAN :
         \E r \in find_best_path(G, starts, targets, mgn) :
            /\ G' = r.base
            /\ ret' = r.ret
            /\ args' = [op |-> "find_best_path", starts |-> starts,
                         targets |-> targets, mgn |-> mgn]
    /\ pc' = "find_best_path"
    /\ UNCHANGED <<nodeRows, edgeRows, LABELS, CATEGORIES, POSITIONS>>

\* The request is over: its views are dropped.
EndRequest ==
    /\ pc # "idle"
    /\ pc' = "idle"
    /\ args' = NoArgs
    /\ ret' = NoRet
    /\ UNCHANGED <<nodeRows, edgeRows, G, LABELS, CATEGORIES, POSITIONS>>

RouteNext == CallFilter \/ CallRestrict \/ CallFindBestPath \/ EndRequest

SpecRoute == RouteInit /\ [][RouteNext]_vars

----------------------------------------------------------------------------
(* Resolving a selection over the indices of any node table *)

MaxRows == 2

\* "wc", "WC", "Wc", "A", "B", "A B"
StrWcLower == <<119, 99>>
StrWcUpper == <<87, 67>>
StrWcCap == <<87, 99>>
StrA == <<65>>
StrB == <<66>>
StrAB == <<65, 32, 66>>

TypeColumn == {None, StrEmpty, StrWcLower, StrWcUpper}
LabelColumn == {None, StrA, StrAB, StrWcCap}
PersonColumn == {None, StrB}

\* What a caller may ask for: None, labels, category names and strings that
\* are neither.
SelectionChoices == {None, StrEmpty, StrA, StrB, StrAB, StrWcCap, StrWcLower, StrWcUpper}

ResolveInit ==
    \E n \in 1..MaxRows :
      \E ty \in [1..n -> TypeColumn], la \in [1..n -> LabelColumn], pe \in [1..n -> PersonColumn] :
          /\ nodeRows = [i \in 1..n |-> NodeRow(i, i, i, 1, ty[i], la[i], pe[i])]
          /\ edgeRows = <<>>
          /\ LET built == build_graph(nodeRows, edgeRows)
             IN /\ G = built.G
                /\ POSITIONS = built.POS
                /\ LABELS = built.LABELS
                /\ CATEGORIES = built.CATEGORIES
          /\ pc = "idle"
          /\ args = NoArgs
          /\ ret = NoRet

CallResolve ==
    /\ pc = "idle"
    /\ \E selection \in SelectionChoices :
         /\ ret' = Returned(resolve_selection(selection, LABELS, CATEGORIES))
         /\ args' = [op |-> "resolve_selection", selection |-> selection]
    /\ pc' = "resolve_selection"
    /\ UNCHANGED <<nodeRows, edgeRows, G, LABELS, CATEGORIES, POSITIONS>>

ResolveNext == CallResolve \/ EndRequest

SpecResolve == ResolveInit /\ [][ResolveNext]_vars

----------------------------------------------------------------------------
(* Building the graph from any tables *)

MaxEdgeRows == 2

\* Ids an edge row may name: the two nodes of the table and one that is not
\* in it.
BuildEndpoints == {1, 2, 3}
BuildWeights == (-1)..MaxWeight

BuildInit ==
    \E k \in 0..MaxEdgeRows :
      \E us \in [1..k -> BuildEndpoints], vs \in [1..k -> BuildEndpoints], ws \in [1..k -> BuildWeights] :
          /\ nodeRows = [i \in 1..2 |-> NodeRow(i, i, i, 1, None, None, None)]
          /\ edgeRows = [i \in 1..k |-> EdgeRow(us[i], vs[i], ws[i])]
          /\ G = EmptyGraph
          /\ POSITIONS = EmptyDict
          /\ LABELS = EmptyDict
          /\ CATEGORIES = EmptyDict
          /\ pc = "start"
          /\ args = NoArgs
          /\ ret = NoRet

\* G, POSITIONS, LABELS, CATEGORIES = build_graph()
BuildGraph ==
    /\ pc = "start"
    /\ LET built == build_graph(nodeRows, edgeRows)
       IN /\ G' = built.G
          /\ POSITIONS' = built.POS
          /\ LABELS' = built.LABELS
          /\ CATEGORIES' = built.CATEGORIES
    /\ pc' = "idle"
    /\ UNCHANGED <<nodeRows, edgeRows, args, ret>>

BuildNext == BuildGraph

SpecBuild == BuildInit /\ [][BuildNext]_vars

----------------------------------------------------------------------------
(* Estimating distance and time of a path of any whole weight *)

MaxLength == 400

EstimateInit ==
    \E length \in 0..MaxLength :
          /\ nodeRows = <<>>
          /\ edgeRows = <<>>
          /\ G = EmptyGraph
          /\ POSITIONS = EmptyDict
          /\ LABELS = EmptyDict
          /\ CATEGORIES = EmptyDict
          /\ pc = "path_weight"
          /\ args = NoArgs
          /\ ret = Returned(length)

\* length = nx.path_weight(G, path, "weight") has returned; the estimate follows.
CallEstimate ==
    /\ pc = "path_weight"
    /\ args' = [op |-> "estimate", length |-> ret.value]
    /\ ret' = Returned(Estimate(ret.value))
    /\ pc' = "estimate"
    /\ UNCHANGED <<nodeRows, edgeRows, G, LABELS, CATEGORIES, POSITIONS>>

EstimateNext == CallEstimate

SpecEstimate == EstimateInit /\ [][EstimateNext]_vars

----------------------------------------------------------------------------
(* What the claims speak of, stated on the graph G and the request alone *)

FoundPath == pc = "find_best_path" /\ ret.kind = "return" /\ ret.value # None
FoundNothing == pc = "find_best_path" /\ ret.kind = "return" /\ ret.value = None

TypeLower(n) == Lower(G.data[n]["type"])
FloorOf(n) == G.data[n]["floor"]

IsStairs(n) == TypeLower(n) \in {StrStaircase, StrLestnitsa}
IsElevator(n) == TypeLower(n) \in {StrElevator, StrLift}

\* The nodes a mode may use.
Usable(mgn) == {n \in G.nodes : IF mgn THEN ~IsStairs(n) ELSE ~IsElevator(n)}

\* The nodes of U the pair (s, t) may use: those of its floor when s and t
\* share one.
PairNodesIn(U, s, t) ==
    IF FloorOf(s) = FloorOf(t) THEN {n \in U : FloorOf(n) = FloorOf(s)} ELSE U

\* The simple paths from s to t through the nodes of S.
Routes(S, s, t) == IF s \in S /\ t \in S THEN PathsFrom(Induced(G, S), <<s>>, t) ELSE {}

\* The index pairs <<i, j>> of the pairs the loops examine: both ends in U.
ExaminedIn(U) ==
    {ij \in (1..Len(args.starts)) \X (1..Len(args.targets)) :
        args.starts[ij[1]] \in U /\ args.targets[ij[2]] \in U}

PairRoutesIn(U, ij) ==
    Routes(PairNodesIn(U, args.starts[ij[1]], args.targets[ij[2]]),
           args.starts[ij[1]], args.targets[ij[2]])

ConnectedIn(U) == {ij \in ExaminedIn(U) : PairRoutesIn(U, ij) # {}}

Examined == ExaminedIn(Usable(args.mgn))
PairRoutes(ij) == PairRoutesIn(Usable(args.mgn), ij)
Connected == ConnectedIn(Usable(args.mgn))

\* The weight of the lightest route of a connected pair.
Lightest(ij) ==
    LET routes == PairRoutes(ij)
        r == CHOOSE p \in routes : \A q \in routes : path_weight(G, p) <= path_weight(G, q)
    IN path_weight(G, r)

VisitedBefore(a, b) == a[1] < b[1] \/ (a[1] = b[1] /\ a[2] < b[2])

\* C1: a returned path holds no node of the type its mode leaves out, the
\* ends included: no stairs when mgn is true, no elevator when it is false.
C1_NoForbiddenNode ==
    FoundPath =>
        \A i \in 1..Len(ret.value) :
            /\ ret.value[i] \in G.nodes
            /\ args.mgn => ~IsStairs(ret.value[i])
            /\ ~args.mgn => ~IsElevator(ret.value[i])

\* A path was returned although a start or a target was of the forbidden type.
C1_Witness ==
    /\ FoundPath
    /\ Len(ret.value) >= 2
    /\ \E n \in (Range(args.starts) \cup Range(args.targets)) \cap G.nodes :
          n \notin Usable(args.mgn)

\* C2: no examined pair has, in its working view, a route strictly lighter
\* than the returned path.
C2_MinimalWeight ==
    FoundPath =>
        LET U == Usable(args.mgn)
            m == path_weight(G, ret.value)
        IN \A ij \in ExaminedIn(U) : \A q \in PairRoutesIn(U, ij) : m <= path_weight(G, q)

\* The returned path beats the lightest route of some other connected pair.
C2_Witness ==
    /\ FoundPath
    /\ \E ij \in Connected : path_weight(G, ret.value) < Lightest(ij)
    /\ \E ij \in Connected : VisitedBefore(ij, CHOOSE b \in Connected :
                                   Lightest(b) = path_weight(G, ret.value))

\* C3: among the connected pairs of minimal weight, the returned path is a
\* lightest route of the one visited first (starts outside, targets inside).
C3_FirstMinimalPairWins ==
    FoundPath =>
        LET U == Usable(args.mgn)
            m == path_weight(G, ret.value)
            \* the pairs with a route as light as the returned path
            asLight == {ij \in ExaminedIn(U) :
                           \E q \in PairRoutesIn(U, ij) : path_weight(G, q) <= m}
            first == CHOOSE ij \in asLight :
                         \A other \in asLight : other = ij \/ VisitedBefore(ij, other)
        IN /\ asLight # {}
           /\ ret.value \in PairRoutesIn(U, first)
           /\ \A ij \in asLight : \A q \in PairRoutesIn(U, ij) : m <= path_weight(G, q)
           /\ ret.value[1] = args.starts[first[1]]
           /\ Last(ret.value) = args.targets[first[2]]

\* Two pairs with different ends tie for the minimum.
C3_Witness ==
    /\ FoundPath
    /\ \E a \in Connected, b \in Connected :
          /\ VisitedBefore(a, b)
          /\ Lightest(a) = Lightest(b)
          /\ Lightest(a) = path_weight(G, ret.value)
          /\ <<args.starts[a[1]], args.targets[a[2]]>> # <<args.starts[b[1]], args.targets[b[2]]>>
          /\ ret.value[1] = args.starts[a[1]]
          /\ Last(ret.value) = args.targets[a[2]]

SingleSameFloorPair ==
    /\ pc = "find_best_path"
    /\ Len(args.starts) = 1
    /\ Len(args.targets) = 1
    /\ {args.starts[1], args.targets[1]} \subseteq Usable(args.mgn)
    /\ FloorOf(args.starts[1]) = FloorOf(args.targets[1])

\* C4: for one start and one target of the same floor, a path is returned
\* exactly when the two are connected through usable nodes of that floor,
\* and the path stays on that floor.
C4_SameFloorStaysOnFloor ==
    SingleSameFloorPair =>
        LET s == args.starts[1]
            t == args.targets[1]
            onFloor == {n \in Usable(args.mgn) : FloorOf(n) = FloorOf(s)}
        IN /\ ret.kind = "return"
           /\ (ret.value # None) <=> (Routes(onFloor, s, t) # {})
           /\ ret.value # None => \A i \in 1..Len(ret.value) : FloorOf(ret.value[i]) = FloorOf(s)

\* Nothing is returned although the filtered graph joins the two through
\* another floor.
C4_Witness ==
    /\ SingleSameFloorPair
    /\ FoundNothing
    /\ Routes(Usable(args.mgn), args.starts[1], args.targets[1]) # {}

\* C7: find_best_path never raises, and returns None exactly when no pair
\* with both ends in the filtered view is connected in its working view.
C7_NeverRaises ==
    pc = "find_best_path" =>
        /\ ret.kind = "return"
        /\ ret.kind = "return" => ((ret.value = None) <=> (Connected = {}))

\* None came back from a call that was given an id that is no node, and a
\* pair with no route.
C7_Witness ==
    /\ FoundNothing
    /\ \E s \in Range(args.starts) : s \notin G.nodes
    /\ \E ij \in Examined : PairRoutes(ij) = {}

\* C9: whatever was called, G is the graph build_graph made.
C9_BaseGraphUnchanged == G = build_graph(nodeRows, edgeRows).G

\* find_best_path has left a node of G out of its view, searched a pair of
\* one floor in the view of that floor, and found nothing.
C9_Witness ==
    /\ FoundNothing
    /\ Usable(args.mgn) # G.nodes
    /\ \E ij \in Examined :
          /\ args.starts[ij[1]] # args.targets[ij[2]]
          /\ FloorOf(args.starts[ij[1]]) = FloorOf(args.targets[ij[2]])

\* C10: a returned path starts at a start, ends at a target, walks edges of
\* G and visits no node twice; with a usable node that is both a start and a
\* target, a path of weight 0 is returned.
C10_WellFormedRoute ==
    /\ FoundPath =>
          /\ Len(ret.value) >= 1
          /\ ret.value[1] \in Range(args.starts)
          /\ Last(ret.value) \in Range(args.targets)
          /\ \A i \in 1..(Len(ret.value) - 1) :
                EdgeKey(ret.value[i], ret.value[i + 1]) \in DOMAIN G.weight
          /\ \A i \in 1..Len(ret.value), j \in 1..Len(ret.value) :
                ret.value[i] = ret.value[j] => i = j
    /\ pc = "find_best_path"
         /\ (Range(args.starts) \cap Range(args.targets) \cap Usable(args.mgn)) # {}
       => FoundPath /\ path_weight(G, ret.value) = 0
    /\ pc = "find_best_path" /\ Len(args.starts) = 1 /\ args.targets = args.starts
         /\ args.starts[1] \in Usable(args.mgn)
       => ret = Returned(args.starts)

\* A path over two edges, from one floor to another, was returned.
C10_Witness ==
    /\ FoundPath
    /\ Len(ret.value) = 3
    /\ FloorOf(ret.value[1]) # FloorOf(ret.value[3])

----------------------------------------------------------------------------
(* The claims on resolve_selection, build_graph and the estimate *)

Resolved == pc = "resolve_selection"

IsLabelKey == args.selection \in DOMAIN LABELS
IsCategoryName == args.selection \in DOMAIN CATEGORIES

\* The ids of the rows filed under the label sel.
LabelIds(sel) == {nodeRows[i].id : i \in {j \in 1..Len(nodeRows) : LabelKey(nodeRows[j]) = sel}}

\* The ids of the rows whose type, capitalized, is sel.
CategoryIds(sel) ==
    {nodeRows[i].id : i \in {j \in 1..Len(nodeRows) :
        Truthy(nodeRows[j].type) /\ Capitalize(nodeRows[j].type) = sel}}

\* C5 as stated: one id for a label, the ids of the category for a category
\* name, nothing for any other selection.
C5_AsStated ==
    Resolved =>
        /\ IsLabelKey => Len(ret.value) = 1
        /\ IsCategoryName => Range(ret.value) = CategoryIds(args.selection)
        /\ ~IsLabelKey /\ ~IsCategoryName => ret.value = <<>>

\* C5, amended: one id (of a row filed under that label) for a label; the ids
\* of the category for a category name that is not also a label; nothing for
\* any other selection.
C5_LabelBeforeCategory ==
    Resolved =>
        /\ IsLabelKey => Len(ret.value) = 1 /\ ret.value[1] \in LabelIds(args.selection)
        /\ IsCategoryName /\ ~IsLabelKey =>
              /\ Range(ret.value) = CategoryIds(args.selection)
              /\ ret.value # <<>>
        /\ ~IsLabelKey /\ ~IsCategoryName => ret.value = <<>>

\* A selection that is a label and a category name resolved to the label's
\* node, which is not the category.
C5_Witness ==
    /\ Resolved
    /\ IsLabelKey
    /\ IsCategoryName
    /\ Range(ret.value) # CategoryIds(args.selection)
    /\ Cardinality(CategoryIds(args.selection)) = 2

EdgeEnds == UNION (DOMAIN G.weight)

\* Every edge weighs at least 0 and joins nodes of the node table, which
\* carry pos, floor and type.
GraphWellFormed ==
    /\ \A e \in DOMAIN G.weight : G.weight[e] >= 0
    /\ \A n \in EdgeEnds :
          /\ n \in DOMAIN POSITIONS
          /\ {"pos", "floor", "type"} \subseteq DOMAIN G.data[n]

\* The tables keep the input contract: weights >= 0, edges between rows of
\* the node table.
TablesKeepContract ==
    \A i \in 1..Len(edgeRows) :
        /\ edgeRows[i].w >= 0
        /\ {edgeRows[i].u, edgeRows[i].v} \subseteq {nodeRows[j].id : j \in 1..Len(nodeRows)}

GraphBuilt == pc = "idle" /\ G # EmptyGraph

\* C6 as stated: whatever the tables hold, the built graph is well formed.
C6_AsStated == GraphBuilt => GraphWellFormed

\* C6, amended: the graph built from tables that keep the input contract is
\* well formed.
C6_WellFormedFromValidTables == GraphBuilt /\ TablesKeepContract => GraphWellFormed

\* A graph built from valid tables in which a later row overwrote an edge.
C6_Witness ==
    /\ GraphBuilt
    /\ TablesKeepContract
    /\ Len(edgeRows) = 2
    /\ Cardinality(DOMAIN G.weight) = 1
    /\ edgeRows[1].w # edgeRows[2].w

Estimated == pc = "estimate"

\* meters is the floor of length / 3.5.
MetersIsFloor ==
    /\ 7 * ret.value.meters <= 2 * args.length
    /\ 2 * args.length < 7 * (ret.value.meters + 1)

\* meters / 72 lies exactly halfway between two integers.
Halfway == ret.value.meters % 72 = 36

\* C8 as stated, a tie rounded up as in schoolbook rounding.
C8_AsStated ==
    Estimated =>
        /\ MetersIsFloor
        /\ 72 * ret.value.minutes - 36 <= ret.value.meters
        /\ ret.value.meters < 72 * ret.value.minutes + 36
        /\ args.length = 252 => ret.value.meters = 72 /\ ret.value.minutes = 1

\* C8, amended: minutes is meters / 72 rounded to the nearest integer, and
\* to the even one of the two when meters / 72 lies halfway between them.
C8_RoundsHalfToEven ==
    Estimated =>
        /\ MetersIsFloor
        /\ 72 * ret.value.minutes - 36 <= ret.value.meters
        /\ ret.value.meters <= 72 * ret.value.minutes + 36
        /\ Halfway => ret.value.minutes % 2 = 0
        /\ args.length = 252 => ret.value.meters = 72 /\ ret.value.minutes = 1

\* A tie that went down: 36 meters are 0 minutes.
C8_Witness ==
    /\ Estimated
    /\ Halfway
    /\ ret.value.meters = 36
    /\ ret.value.minutes = 0

====
